---- MODULE Spec2Model ----
(***************************************************************************)
(* Model of picoga: the generational engine `evolve` with its OrderedDict  *)
(* fitness cache (picoga/__init__.py), and the grammar interpreter         *)
(* `expand` with its codon `selector` (picoga/grammatical.py).             *)
(***************************************************************************)
EXTENDS Integers, Sequences, FiniteSets, TLC

VARIABLES
    \* ---- evolve (picoga/__init__.py) ----
    pc,          \* the line of evolve that runs next
    population,  \* the list `population`
    cache,       \* the OrderedDict `cache`: sequence of [key, value], oldest first
    elite,       \* argument `elite`
    rate,        \* argument `rate`, in halves (0 = 0.0, 1 = 0.5, 2 = 1.0)
    remember,    \* variable `remember` (the argument until line 89 rebinds it)
    mapfn,       \* argument `map`: "lazy" (builtin map) or "eager" (a pool's map)
    fitfn,       \* argument `fitness`: which pure function the caller passes
    gen,         \* number of (population, cache) pairs handed to the caller
    \* ---- history of the evolve run (not program state) ----
    size0,       \* length of the population evolve was called with
    entered,     \* the population as it was before the sort, crossover or
                 \* mutation that has just run
    yielded,     \* population[:elite] of the pair last handed to the caller
    kept,        \* population[:elite] after the last sort
    recency,     \* cache keys ordered by the time of their last touch
    evicted,     \* keys removed by the trim that has just run
    ncalls,      \* invocations of the fitness function before the first pair
    \* ---- expand and selector (picoga/grammatical.py) ----
    xpc,         \* "loop" while expand runs, then "raised" or "returned"
    start,       \* the start symbol S
    maxdepth,    \* argument `maxdepth`
    q,           \* the list `q` of incomplete symbols
    cur,         \* the current symbol `x`
    codons,      \* the codon tuple the selector was built from
    iter,        \* codons consumed from selector.iterator
    nread,       \* selector.n
    rnd,         \* state of selector.random
    \* ---- history of the expand run (not program state) ----
    calls,       \* selector calls so far, counted up to len(codons) + 1
    last,        \* the last selector call: its choices, answer and source
    asked,       \* the choice lists the selector was called with, in order
    earlier,     \* the outcome of an earlier expand call on equal codons
    \* ---- a second evolve run on the same arguments and seed ----
    popB,        \* its list `population`
    cacheB,      \* its OrderedDict `cache`
    \* ---- codons.samples (picoga/grammatical.py) ----
    spc,         \* "loop" while the generator runs, then "done"
    want,        \* the argument `n` of samples
    left,        \* the local `n` as the loop counts it down
    sampled      \* the codon sequences the generator has yielded

evars == <<pc, population, cache, elite, rate, remember, mapfn, fitfn, gen,
           size0, entered, yielded, kept, recency, evicted, ncalls>>

xvars == <<xpc, start, maxdepth, q, cur, codons, iter, nread, rnd, calls, last,
           asked, earlier>>

bvars == <<popB, cacheB>>

svars == <<spc, want, left, sampled>>

vars == <<evars, xvars, bvars, svars>>

\* ---- bounds of the model ----
MaxPop == 3        \* largest initial population
MaxRemember == 3   \* largest `remember` argument
MaxGen == 1        \* pairs the caller takes after the first before it stops
MaxCodon == 1      \* codon values are 0..MaxCodon
MaxLen == 2        \* longest individual (codons.most)

MaxDepth == 4      \* largest finite `maxdepth`
MaxAsked == 12     \* selector calls of one expand run that are logged
MaxFuel == 40      \* nested steps of the reference evaluation
MaxCodons == 5     \* longest codon sequence given to a selector
MaxPairPop == 2    \* largest initial population of the two compared runs
MaxSamples == 2    \* largest argument `n` of codons.samples
WidePop == 4       \* size of the population in the runs with one non-elite slot
MaxGenWide == 2    \* pairs the caller takes after the first in those runs

\* ---- program constants ----
TournamentK == 2   \* tournament.k default
Inf == -1          \* math.inf, the default `maxdepth`

Omega == 0..MaxCodon

\* The shape of every value expand handles; this one is Python's None.
NoValue == [tag |-> "none", nt |-> "", pc |-> 0, op |-> <<>>, lhs |-> <<>>, toks |-> <<>>]

\* The `rate` arguments tried, in halves: 0.0 and 0.5.
Rates == {0, 1}

\* Individuals: the codon tuples of the demo, 1..most codons out of omega.
Indiv == UNION {[1..n -> Omega] : n \in 1..MaxLen}

Min(a, b) == IF a <= b THEN a ELSE b
Max(a, b) == IF a >= b THEN a ELSE b

RECURSIVE SumSeq(_)
SumSeq(s) == IF s = <<>> THEN 0 ELSE Head(s) + SumSeq(Tail(s))

\* The caller's fitness function, a pure function of the individual, lower
\* is better: the distance of the codon sum from a target of one, or the
\* individual read as a numeral in base len(omega).
Distance(x) == IF SumSeq(x) >= 1 THEN SumSeq(x) - 1 ELSE 1 - SumSeq(x)

RECURSIVE Numeral(_)
Numeral(x) ==
    IF x = <<>> THEN 0 ELSE (MaxCodon + 1) * Numeral(SubSeq(x, 1, Len(x) - 1)) + x[Len(x)]

Fitness(x) == IF fitfn = "distance" THEN Distance(x) ELSE Numeral(x)

\* ------------------------------------------------------------------------
\* The OrderedDict cache
\* ------------------------------------------------------------------------
Keys(c) == {c[i].key : i \in 1..Len(c)}

InCache(c, k) == k \in Keys(c)

\* cache[key]
Lookup(c, k) == c[CHOOSE i \in 1..Len(c) : c[i].key = k].value

\* cache.move_to_end(key)
MoveToEndSkip(c, k) == c
MoveToEnd(c, k) ==
    LET i == CHOOSE j \in 1..Len(c) : c[j].key = k
    IN  SubSeq(c, 1, i - 1) \o SubSeq(c, i + 1, Len(c)) \o <<c[i]>>

\* access(key): the cache after the read (the value read is Lookup(c, key)).
access(c, k) == MoveToEnd(c, k)

\* access applied to every element of keys, in order.
RECURSIVE AccessAll(_, _)
AccessAll(c, keys) ==
    IF keys = <<>> THEN c ELSE AccessAll(access(c, Head(keys)), Tail(keys))

\* (x for x in population if x not in cache), evaluated at once.
RECURSIVE Uncached(_, _)
Uncached(c, pop) ==
    IF pop = <<>> THEN <<>>
    ELSE IF InCache(c, Head(pop)) THEN Uncached(c, Tail(pop))
         ELSE <<Head(pop)>> \o Uncached(c, Tail(pop))

\* cache.update(zip(keys, map(fitness, keys2))) with the builtin map: both
\* generators advance in step, one pair at a time, each filtering on the
\* cache as it is when the pair is pulled.
RECURSIVE UpdateLazy(_, _)
UpdateLazy(c, pop) ==
    IF pop = <<>> THEN c
    ELSE IF InCache(c, Head(pop)) THEN UpdateLazy(c, Tail(pop))
         ELSE UpdateLazy(Append(c, [key |-> Head(pop), value |-> Fitness(Head(pop))]),
                         Tail(pop))

\* The same with a map that consumes its input before it returns: `results`
\* is computed against the cache as it was, the key generator still filters
\* one pair at a time while the entries are inserted.
RECURSIVE ZipInsert(_, _, _)
ZipInsert(c, pop, results) ==
    IF pop = <<>> \/ results = <<>> THEN c
    ELSE IF InCache(c, Head(pop)) THEN ZipInsert(c, Tail(pop), results)
         ELSE ZipInsert(Append(c, [key |-> Head(pop), value |-> Head(results)]),
                        Tail(pop), Tail(results))

EagerResults(c, pop) ==
    LET u == Uncached(c, pop) IN [i \in 1..Len(u) |-> Fitness(u[i])]

UpdateEager(c, pop) == ZipInsert(c, pop, EagerResults(c, pop))

UpdateCache(c, pop, m) ==
    IF m = "lazy" THEN UpdateLazy(c, pop) ELSE UpdateEager(c, pop)

\* Invocations of fitness made by one update.
FitnessCalls(c, pop, m) ==
    IF m = "lazy" THEN Len(UpdateLazy(c, pop)) - Len(c)
    ELSE Len(Uncached(c, pop))

\* while len(cache) > remember: cache.popitem(False)
TrimOnce(c, cap) == IF Len(c) > cap THEN Tail(c) ELSE c
Trim(c, cap) ==
    IF Len(c) > cap THEN SubSeq(c, Len(c) - cap + 1, Len(c)) ELSE c

\* ------------------------------------------------------------------------
\* list.sort(key=access): the keys are read once per element, in list order;
\* the sort is stable and ascending.
\* ------------------------------------------------------------------------
RECURSIVE InsertSorted(_, _, _)
InsertSorted(sorted, x, c) ==
    IF sorted = <<>> THEN <<x>>
    ELSE IF Lookup(c, Head(sorted)) <= Lookup(c, x)
         THEN <<Head(sorted)>> \o InsertSorted(Tail(sorted), x, c)
         ELSE <<x>> \o sorted

RECURSIVE SortFrom(_, _, _)
SortFrom(sorted, rest, c) ==
    IF rest = <<>> THEN sorted
    ELSE SortFrom(InsertSorted(sorted, Head(rest), c), Tail(rest), c)

Reverse(s) == [i \in 1..Len(s) |-> s[Len(s) + 1 - i]]

SortedUnstable(pop, c) == SortFrom(<<>>, Reverse(pop), c)
Sorted(pop, c) == SortFrom(<<>>, pop, c)

\* ------------------------------------------------------------------------
\* Strategies
\* ------------------------------------------------------------------------
\* population[:elite]
Elites(pop, e) == SubSeq(pop, 1, Min(e, Len(pop)))

\* n = len(population) - elite
NonEliteShort(pop, e) == Len(pop) - e - 1
NonElite(pop, e) == Len(pop) - e

\* min(candidates, key=fitness): the first candidate of least cached fitness.
RECURSIVE MinByKey(_, _)
MinByKey(cands, c) ==
    IF Len(cands) = 1 THEN Head(cands)
    ELSE LET m == MinByKey(Tail(cands), c)
         IN  IF Lookup(c, Head(cands)) <= Lookup(c, m) THEN Head(cands) ELSE m

\* tournament.__call__: picks[j] are the indices random.choices drew for slot j.
tournament(pop, c, e, picks) ==
    Elites(pop, e) \o
    [j \in 1..Len(picks) |->
        MinByKey([i \in 1..TournamentK |-> pop[picks[j][i]]], c)]

\* The keys the tournament reads through `fitness`, in order.
RECURSIVE TournamentReads(_, _)
TournamentReads(pop, picks) ==
    IF picks = <<>> THEN <<>>
    ELSE [i \in 1..TournamentK |-> pop[Head(picks)[i]]] \o
         TournamentReads(pop, Tail(picks))

\* twopoint.__call__(first, second): every offspring some draw of k, a, b gives.
twopoint(first, second) ==
    IF first # <<>> /\ second # <<>>
    THEN {SubSeq(first, 1, a) \o SubSeq(second, b + 1, b + k) \o
          SubSeq(first, a + k + 1, Len(first)) :
            <<k, a, b>> \in
              {t \in (1..Min(Len(first), Len(second))) \X (0..Len(first))
                     \X (0..Len(second)) :
                 t[2] <= Len(first) - t[1] /\ t[3] <= Len(second) - t[1]}}
    ELSE {IF first # <<>> THEN first ELSE second}

\* What one non-elite slot of breeding can become: a member drawn from the
\* population, crossed with a drawn partner when random.random() < rate.
BreedSlotAlways(pop, r) ==
    UNION {twopoint(pop[i], pop[j]) : <<i, j>> \in (1..Len(pop)) \X (1..Len(pop))}
BreedSlot(pop, r) ==
    (IF r < 2 THEN {pop[i] : i \in 1..Len(pop)} ELSE {}) \cup
    (IF r > 0
     THEN UNION {twopoint(pop[i], pop[j]) : <<i, j>> \in (1..Len(pop)) \X (1..Len(pop))}
     ELSE {})

\* breeding: the elites, then the bred slots.
breedingNoElite(pop, e, tail) == tail \o Elites(pop, e)
breeding(pop, e, tail) == Elites(pop, e) \o tail

\* codons.__call__(member): clone, delete or replace one codon.
RemoveAt(s, i) == SubSeq(s, 1, i - 1) \o SubSeq(s, i + 1, Len(s))

NextCodon(x) == (x + 1) % (MaxCodon + 1)

CodonReplace(m, i) == [m EXCEPT ![i] = NextCodon(m[i])]

CodonDelete(m, i) == IF Len(m) > 1 THEN RemoveAt(m, i) ELSE CodonReplace(m, i)

CodonClone(m, i) == IF Len(m) < MaxLen THEN Append(m, m[i]) ELSE CodonDelete(m, i)

mutate(m) ==
    UNION {{CodonClone(m, i), CodonDelete(m, i), CodonReplace(m, i)} : i \in 1..Len(m)}

\* What one non-elite slot of mutation can become.
MutateSlotUnchanged(pop) == {pop[i] : i \in 1..Len(pop)}
MutateSlot(pop) == UNION {mutate(pop[i]) : i \in 1..Len(pop)}

\* mutation: the elites, then the mutants.
mutation(pop, e, tail) == Elites(pop, e) \o tail

\* ------------------------------------------------------------------------
\* Recency history: a key is touched when inserted and when read by access.
\* ------------------------------------------------------------------------
Without(s, k) == SelectSeq(s, LAMBDA y : y # k)

Touch(r, k) == Append(Without(r, k), k)

RECURSIVE TouchAll(_, _)
TouchAll(r, keys) ==
    IF keys = <<>> THEN r ELSE TouchAll(Touch(r, Head(keys)), Tail(keys))

\* Keys an update inserts, in insertion order.
Inserted(c, c2) == [i \in 1..(Len(c2) - Len(c)) |-> c2[Len(c) + i].key]

Pos(s, k) == CHOOSE i \in 1..Len(s) : s[i] = k

\* ------------------------------------------------------------------------
\* evolve
\* ------------------------------------------------------------------------
\* Nothing outside the evolve run changes.
ExpandIdle == UNCHANGED <<xvars, bvars, svars>>

InitEvolve ==
    /\ pc = "start"
    /\ population \in UNION {[1..n -> Indiv] : n \in 1..MaxPop}
    /\ cache = <<>>
    /\ elite \in 0..MaxPop
    /\ rate \in Rates
    /\ remember \in 0..MaxRemember
    /\ mapfn \in {"lazy", "eager"}
    /\ fitfn = "distance"
    /\ gen = 0
    /\ size0 = Len(population)
    /\ entered = <<>>
    /\ yielded = <<>>
    /\ kept = <<>>
    /\ recency = <<>>
    /\ evicted = {}
    /\ ncalls = 0
    \* no expand call is in progress
    /\ xpc = "idle" /\ start = "" /\ maxdepth = 0 /\ q = <<>> /\ cur = NoValue
    /\ codons = <<>> /\ iter = 0 /\ nread = 0 /\ rnd = 0 /\ calls = 0
    /\ last = [choices |-> <<>>, answer |-> NoValue, via |-> "none"]
    /\ asked = <<>> /\ earlier = [xpc |-> "none", cur |-> NoValue, asked |-> <<>>]
    \* no second run, no sampler
    /\ popB = <<>> /\ cacheB = <<>>
    /\ spc = "idle" /\ want = 0 /\ left = 0 /\ sampled = <<>>

\* evolve called with a population of WidePop individuals of which all but
\* one are elite, and a fitness function of four levels.
InitWide ==
    /\ pc = "start"
    /\ population \in [1..WidePop -> Indiv]
    /\ cache = <<>>
    /\ elite = WidePop - 1
    /\ rate \in Rates
    /\ remember \in 0..MaxRemember
    /\ mapfn \in {"lazy", "eager"}
    /\ fitfn = "numeral"
    /\ gen = 0
    /\ size0 = Len(population)
    /\ entered = <<>>
    /\ yielded = <<>>
    /\ kept = <<>>
    /\ recency = <<>>
    /\ evicted = {}
    /\ ncalls = 0
    \* no expand call is in progress, no second run, no sampler
    /\ xpc = "idle" /\ start = "" /\ maxdepth = 0 /\ q = <<>> /\ cur = NoValue
    /\ codons = <<>> /\ iter = 0 /\ nread = 0 /\ rnd = 0 /\ calls = 0
    /\ last = [choices |-> <<>>, answer |-> NoValue, via |-> "none"]
    /\ asked = <<>> /\ earlier = [xpc |-> "none", cur |-> NoValue, asked |-> <<>>]
    /\ popB = <<>> /\ cacheB = <<>>
    /\ spc = "idle" /\ want = 0 /\ left = 0 /\ sampled = <<>>

\* Lines 84-89: the configuration check and the capacity.
\* remember = max(remember, len(population))
RetainAsGiven(r, n) == r
Retain(r, n) == Max(r, n)

InvalidEliteLoose(e, n) == e > n
InvalidElite(e, n) == e >= n

Start ==
    /\ pc = "start"
    /\ ExpandIdle
    /\ IF InvalidElite(elite, Len(population))
       THEN pc' = "error" /\ UNCHANGED remember
       ELSE pc' = "eval" /\ remember' = Retain(remember, Len(population))
    /\ UNCHANGED <<population, cache, elite, rate, mapfn, fitfn, gen,
                   size0, entered, yielded, kept, recency, evicted, ncalls>>

\* Lines 101 and 113: the bulk fitness update.
Evaluate(here, next) ==
    /\ pc = here
    /\ ExpandIdle
    /\ LET c2 == UpdateCache(cache, population, mapfn)
       IN  /\ cache' = c2
           /\ recency' = TouchAll(recency, Inserted(cache, c2))
    /\ ncalls' = IF gen = 0 THEN ncalls + FitnessCalls(cache, population, mapfn)
                  ELSE ncalls
    /\ pc' = next
    /\ evicted' = {}
    /\ entered' = <<>>
    /\ UNCHANGED <<population, elite, rate, remember, mapfn, fitfn, gen,
                   size0, yielded, kept>>

\* Lines 103 and 115: population.sort(key=access).
Sort(here, next) ==
    /\ pc = here
    /\ ExpandIdle
    /\ population' = Sorted(population, cache)
    /\ cache' = AccessAll(cache, population)
    /\ recency' = TouchAll(recency, population)
    /\ entered' = population
    /\ kept' = Elites(population', elite)
    /\ pc' = next
    /\ UNCHANGED <<elite, rate, remember, mapfn, fitfn, gen, size0, yielded, evicted,
                   ncalls>>

\* The caller stops after MaxGen further pairs, or after MaxGenWide when the
\* population is as large as WidePop.
Takes(n) == IF n >= WidePop THEN MaxGenWide ELSE MaxGen

\* Line 105: the caller takes the pair and asks for the next one.
Yield ==
    /\ pc = "yield"
    /\ ExpandIdle
    /\ gen < Takes(size0)
    /\ gen' = gen + 1
    /\ pc' = "select"
    /\ yielded' = Elites(population, elite)
    /\ entered' = <<>>
    /\ UNCHANGED <<population, cache, elite, rate, remember, mapfn, fitfn,
                   size0, kept, recency, evicted, ncalls>>

\* Line 107: selection(population, access, elite, random).
Select ==
    /\ pc = "select"
    /\ ExpandIdle
    /\ \E picks \in [1..NonElite(population, elite) ->
                       [1..TournamentK -> 1..Len(population)]] :
         /\ population' = tournament(population, cache, elite, picks)
         /\ cache' = AccessAll(cache, TournamentReads(population, picks))
         /\ recency' = TouchAll(recency, TournamentReads(population, picks))
    /\ pc' = "trim1"
    /\ UNCHANGED <<elite, rate, remember, mapfn, fitfn, gen, size0, entered, yielded,
                   kept, evicted, ncalls>>

\* Lines 109 and 117: the trim.
TrimCache(here, next) ==
    /\ pc = here
    /\ ExpandIdle
    /\ cache' = Trim(cache, remember)
    /\ evicted' = Keys(cache) \ Keys(cache')
    /\ recency' = SelectSeq(recency, LAMBDA k : k \in Keys(cache'))
    /\ pc' = next
    /\ entered' = <<>>
    /\ UNCHANGED <<population, elite, rate, remember, mapfn, fitfn, gen,
                   size0, yielded, kept, ncalls>>

\* Line 111: breeding(population, crossover, rate, elite, random).
Breed ==
    /\ pc = "breed"
    /\ ExpandIdle
    /\ \E tail \in [1..NonElite(population, elite) -> BreedSlot(population, rate)] :
         population' = breeding(population, elite, tail)
    /\ pc' = "eval2"
    /\ evicted' = {}
    /\ entered' = population
    /\ UNCHANGED <<cache, elite, rate, remember, mapfn, fitfn, gen,
                   size0, yielded, kept, recency, ncalls>>

\* Line 119: mutation(population, mutate, elite, random).
Mutate ==
    /\ pc = "mutate"
    /\ ExpandIdle
    /\ \E tail \in [1..NonElite(population, elite) -> MutateSlot(population)] :
         population' = mutation(population, elite, tail)
    /\ pc' = "eval"
    /\ evicted' = {}
    /\ entered' = population
    /\ UNCHANGED <<cache, elite, rate, remember, mapfn, fitfn, gen,
                   size0, yielded, kept, recency, ncalls>>

NextEvolve ==
    \/ Start
    \/ Evaluate("eval", "sort")
    \/ Sort("sort", "yield")
    \/ Yield
    \/ Select
    \/ TrimCache("trim1", "breed")
    \/ Breed
    \/ Evaluate("eval2", "sort2")
    \/ Sort("sort2", "trim2")
    \/ TrimCache("trim2", "mutate")
    \/ Mutate

\* ------------------------------------------------------------------------
\* Two evolve runs on the same arguments, each given a generator of the same
\* seed as its `random` argument and the default crossover, twopoint().  The
\* draws evolve makes from `random` (lines 107, 111, 119 pass it to the
\* strategies) are the same in both runs; twopoint draws from its own field
\* `random`, which defaults to the module-level generator (line 33), whose
\* state the two runs do not share.  The caller's `mutate` is the same
\* function of the member and of its own equally seeded draws in both runs.
\* ------------------------------------------------------------------------
\* codons.__call__(member) for given draws: the action and the index.
mutateBy(m, d) ==
    LET index == (d.u % Len(m)) + 1
    IN  CASE d.action = "c" -> CodonClone(m, index)
          [] d.action = "d" -> CodonDelete(m, index)
          [] OTHER          -> CodonReplace(m, index)

\* One slot of breeding for given draws of `random`: the member, the coin
\* random.random() < rate and the partner; k, a, b are twopoint's own draws.
BredBy(pop, d) ==
    IF d.cross THEN twopoint(pop[d.member], pop[d.partner]) ELSE {pop[d.member]}

BreedDraws(pop, r) ==
    {d \in [member : 1..Len(pop), cross : BOOLEAN, partner : 1..Len(pop)] :
        /\ d.cross => r > 0
        /\ ~d.cross => (r < 2 /\ d.partner = 1)}

\* What one slot can become in the first and in the second run.
BredPairs(pop, pop2, r) ==
    UNION {BredBy(pop, d) \X BredBy(pop2, d) : d \in BreedDraws(pop, r)}

InitTwoRuns ==
    /\ pc = "start"
    /\ population \in UNION {[1..n -> Indiv] : n \in 1..MaxPairPop}
    /\ popB = population
    /\ cache = <<>>
    /\ cacheB = <<>>
    /\ elite \in 0..MaxPairPop
    /\ rate \in Rates
    /\ remember \in 0..MaxRemember
    /\ mapfn \in {"lazy", "eager"}
    /\ fitfn = "distance"
    /\ gen = 0
    /\ size0 = Len(population)
    /\ entered = <<>> /\ yielded = <<>> /\ kept = <<>> /\ recency = <<>>
    /\ evicted = {} /\ ncalls = 0
    \* no expand call is in progress, no sampler
    /\ xpc = "idle" /\ start = "" /\ maxdepth = 0 /\ q = <<>> /\ cur = NoValue
    /\ codons = <<>> /\ iter = 0 /\ nread = 0 /\ rnd = 0 /\ calls = 0
    /\ last = [choices |-> <<>>, answer |-> NoValue, via |-> "none"]
    /\ asked = <<>> /\ earlier = [xpc |-> "none", cur |-> NoValue, asked |-> <<>>]
    /\ spc = "idle" /\ want = 0 /\ left = 0 /\ sampled = <<>>

\* What no step of the two runs changes.
TwoRunsIdle ==
    UNCHANGED <<elite, rate, mapfn, fitfn, size0, entered, yielded, kept, recency,
                evicted, ncalls, xvars, svars>>

BothStart ==
    /\ pc = "start"
    /\ IF InvalidElite(elite, Len(population))
       THEN pc' = "error" /\ UNCHANGED remember
       ELSE pc' = "eval" /\ remember' = Retain(remember, Len(population))
    /\ UNCHANGED <<population, cache, popB, cacheB, gen>>
    /\ TwoRunsIdle

BothEvaluate(here, next) ==
    /\ pc = here
    /\ cache' = UpdateCache(cache, population, mapfn)
    /\ cacheB' = UpdateCache(cacheB, popB, mapfn)
    /\ pc' = next
    /\ UNCHANGED <<population, popB, remember, gen>>
    /\ TwoRunsIdle

BothSort(here, next) ==
    /\ pc = here
    /\ population' = Sorted(population, cache)
    /\ cache' = AccessAll(cache, population)
    /\ popB' = Sorted(popB, cacheB)
    /\ cacheB' = AccessAll(cacheB, popB)
    /\ pc' = next
    /\ UNCHANGED <<remember, gen>>
    /\ TwoRunsIdle

BothYield ==
    /\ pc = "yield"
    /\ gen < MaxGen
    /\ gen' = gen + 1
    /\ pc' = "select"
    /\ UNCHANGED <<population, cache, popB, cacheB, remember>>
    /\ TwoRunsIdle

BothSelect ==
    /\ pc = "select"
    /\ \E picks \in [1..NonElite(population, elite) ->
                       [1..TournamentK -> 1..Len(population)]] :
         /\ population' = tournament(population, cache, elite, picks)
         /\ cache' = AccessAll(cache, TournamentReads(population, picks))
         /\ popB' = tournament(popB, cacheB, elite, picks)
         /\ cacheB' = AccessAll(cacheB, TournamentReads(popB, picks))
    /\ pc' = "trim1"
    /\ UNCHANGED <<remember, gen>>
    /\ TwoRunsIdle

BothTrim(here, next) ==
    /\ pc = here
    /\ cache' = Trim(cache, remember)
    /\ cacheB' = Trim(cacheB, remember)
    /\ pc' = next
    /\ UNCHANGED <<population, popB, remember, gen>>
    /\ TwoRunsIdle

BothBreed ==
    /\ pc = "breed"
    /\ \E tails \in [1..NonElite(population, elite) ->
                       BredPairs(population, popB, rate)] :
         /\ population' = breeding(population, elite,
                              [i \in DOMAIN tails |-> tails[i][1]])
         /\ popB' = breeding(popB, elite, [i \in DOMAIN tails |-> tails[i][2]])
    /\ pc' = "eval2"
    /\ UNCHANGED <<cache, cacheB, remember, gen>>
    /\ TwoRunsIdle

BothMutate ==
    /\ pc = "mutate"
    /\ \E draws \in [1..NonElite(population, elite) ->
                       [member : 1..Len(population), action : {"c", "d", "r"},
                        u : 0..(MaxLen - 1)]] :
         /\ population' = mutation(population, elite,
               [i \in DOMAIN draws |-> mutateBy(population[draws[i].member], draws[i])])
         /\ popB' = mutation(popB, elite,
               [i \in DOMAIN draws |-> mutateBy(popB[draws[i].member], draws[i])])
    /\ pc' = "eval"
    /\ UNCHANGED <<cache, cacheB, remember, gen>>
    /\ TwoRunsIdle

NextTwoRuns ==
    \/ BothStart
    \/ BothEvaluate("eval", "sort")
    \/ BothSort("sort", "yield")
    \/ BothYield
    \/ BothSelect
    \/ BothTrim("trim1", "breed")
    \/ BothBreed
    \/ BothEvaluate("eval2", "sort2")
    \/ BothSort("sort2", "trim2")
    \/ BothTrim("trim2", "mutate")
    \/ BothMutate

\* ------------------------------------------------------------------------
\* Values handled by expand: None, plain values (token strings), and
\* generators (a nonterminal's suspended computation with its locals).
\* ------------------------------------------------------------------------
None == NoValue

Plain(t) == [None EXCEPT !.tag = "plain", !.toks = t]

\* Calling a generator function: a generator that has not run yet.
Gen(name) == [None EXCEPT !.tag = "gen", !.nt = name]

\* isinstance(v, abc.Generator)
IsGenerator(v) == v.tag = "gen"

\* G = arithmetic(("x", "1"), (add, sub, mul, div))
Vars == <<Plain(<<"x">>), Plain(<<"1">>)>>

Binops == <<Plain(<<"+">>), Plain(<<"-">>), Plain(<<"*">>), Plain(<<"/">>)>>

\* "({} op {})".format(a, b)
Format(op, a, b) == Plain(<<"(">> \o a.toks \o op \o b.toks \o <<")">>)

YieldGen(f, v) == [kind |-> "yield", frame |-> f, val |-> v, seq |-> <<>>]

YieldSeq(f, choices) == [kind |-> "yield", frame |-> f, val |-> None, seq |-> choices]

Stop(v) == [kind |-> "stop", frame |-> None, val |-> v, seq |-> <<>>]

At(f, k) == [f EXCEPT !.pc = k]

\* arithmetic.var:  return (yield self.vars)
SendVar(f, v) ==
    IF f.pc = 0 THEN YieldSeq(At(f, 1), Vars) ELSE Stop(v)

\* arithmetic.binary:  op = (yield self.binops)
\*                     return op((yield self.exp()), (yield self.exp()))
SendBinary(f, v) ==
    CASE f.pc = 0 -> YieldSeq(At(f, 1), Binops)
      [] f.pc = 1 -> YieldGen([f EXCEPT !.pc = 2, !.op = v.toks], Gen("exp"))
      [] f.pc = 2 -> YieldGen([f EXCEPT !.pc = 3, !.lhs = v.toks], Gen("exp"))
      [] OTHER    -> Stop(Format(f.op, Plain(f.lhs), v))

\* arithmetic.exp:  return (yield self.binary(), self.var())
SendExp(f, v) ==
    IF f.pc = 0 THEN YieldSeq(At(f, 1), <<Gen("binary"), Gen("var")>>) ELSE Stop(v)

\* Start symbols tried besides the arithmetic grammar's:
\*   plain:  return "v"                 (completes at once with a plain value)
\*   pair:   return (yield self.var())  (one nested nonterminal)
\*   loopy:  return (yield loopy())     (recurses by yielding itself)
\*   tail:   return (yield (tail(),))   (recurses by completing with itself)
SendPlain(f, v) == Stop(Plain(<<"v">>))

SendPair(f, v) == IF f.pc = 0 THEN YieldGen(At(f, 1), Gen("var")) ELSE Stop(v)

SendLoopy(f, v) == IF f.pc = 0 THEN YieldGen(At(f, 1), Gen("loopy")) ELSE Stop(v)

SendTail(f, v) == IF f.pc = 0 THEN YieldSeq(At(f, 1), <<Gen("tail")>>) ELSE Stop(v)

\* generator.send(v): what the generator does when resumed with v.
Send(f, v) ==
    CASE f.nt = "var"    -> SendVar(f, v)
      [] f.nt = "binary" -> SendBinary(f, v)
      [] f.nt = "exp"    -> SendExp(f, v)
      [] f.nt = "plain"  -> SendPlain(f, v)
      [] f.nt = "pair"   -> SendPair(f, v)
      [] f.nt = "loopy"  -> SendLoopy(f, v)
      [] OTHER           -> SendTail(f, v)

Terminating == {"plain", "var", "pair"}

Starts == Terminating \cup {"exp", "loopy", "tail"}

\* ------------------------------------------------------------------------
\* selector
\* ------------------------------------------------------------------------
\* hash(codons) and random.Random(seed): a fixed hash and a small linear
\* congruential generator stand for CPython's.
RECURSIVE Hash(_)
Hash(cs) == IF cs = <<>> THEN 3 ELSE (31 * Hash(Tail(cs)) + Head(cs) + 1) % 8

Seed(cs) == Hash(cs)

NextRnd(r) == (5 * r + 3) % 8

\* self.random.choice(choices)
RandomChoice(choices, r) == choices[(r % Len(choices)) + 1]

\* choices[x % len(choices)]
ByCodonShifted(choices, c) == choices[((c + 1) % Len(choices)) + 1]
ByCodon(choices, c) == choices[(c % Len(choices)) + 1]

\* next(self.iterator) raises StopIteration
Exhausted(cs, i) == i >= Len(cs)

\* selector.__call__(choices): the answer and the selector's next state.
selector(choices, cs, i, cnt, r) ==
    IF Exhausted(cs, i)
    THEN [answer |-> RandomChoice(choices, r), iter |-> i, nread |-> cnt,
          rnd |-> NextRnd(r), via |-> "random"]
    ELSE [answer |-> ByCodon(choices, cs[i + 1]), iter |-> i + 1, nread |-> cnt + 1,
          rnd |-> r, via |-> "codon"]

\* ------------------------------------------------------------------------
\* expand
\* ------------------------------------------------------------------------
NoCall == [choices |-> <<>>, answer |-> None, via |-> "none"]

\* No earlier expand call to compare with.
NoOutcome == [xpc |-> "none", cur |-> None, asked |-> <<>>]

\* Lines 22-24 and selector.__init__.
InitExpand ==
    /\ xpc = "loop"
    /\ start \in Starts
    /\ maxdepth \in (1..MaxDepth) \cup (IF start \in Terminating THEN {Inf} ELSE {})
    /\ q = <<Gen(start)>>
    /\ cur = None
    /\ codons \in UNION {[1..n -> Omega] : n \in 0..MaxCodons}
    /\ iter = 0
    /\ nread = 0
    /\ rnd = Seed(codons)
    /\ calls = 0
    /\ last = NoCall
    /\ asked = <<>>
    /\ earlier = NoOutcome
    \* no evolve run is in progress, no sampler
    /\ popB = <<>> /\ cacheB = <<>>
    /\ spc = "idle" /\ want = 0 /\ left = 0 /\ sampled = <<>>
    /\ pc = "idle" /\ population = <<>> /\ cache = <<>> /\ elite = 0 /\ rate = 0
    /\ remember = 0 /\ mapfn = "lazy" /\ fitfn = "distance" /\ gen = 0
    /\ size0 = 0 /\ entered = <<>>
    /\ yielded = <<>> /\ kept = <<>> /\ recency = <<>> /\ evicted = {} /\ ncalls = 0

\* len(q) >= maxdepth
DepthReachedLate(qq, md) == md # Inf /\ Len(qq) > md
DepthReached(qq, md) == md # Inf /\ Len(qq) >= md

Top == q[Len(q)]

Popped == SubSeq(q, 1, Len(q) - 1)

\* q.append(g) for a generator the top symbol asks for
PushInPlace(qq, g) == Append(SubSeq(qq, 1, Len(qq) - 1), g)
Push(qq, g) == Append(qq, g)

SelectorIdle == UNCHANGED <<codons, iter, nread, rnd, calls, last, asked>>

\* Nothing outside the expand call changes.
EvolveIdle == UNCHANGED <<evars, bvars, svars, earlier>>

\* The selector's call log, kept up to MaxAsked entries.
Logged(log, choices) == IF Len(log) < MaxAsked THEN Append(log, choices) ELSE log

\* Lines 28-29: the depth check fails.
DepthExceeded ==
    /\ xpc = "loop" /\ q # <<>>
    /\ EvolveIdle
    /\ DepthReached(q, maxdepth)
    /\ xpc' = "raised"
    /\ UNCHANGED <<start, maxdepth, q, cur>>
    /\ SelectorIdle

\* Lines 33-44: the top symbol completes.
Complete ==
    /\ xpc = "loop" /\ q # <<>>
    /\ EvolveIdle
    /\ ~DepthReached(q, maxdepth)
    /\ LET out == Send(Top, cur)
       IN  /\ out.kind = "stop"
           /\ IF IsGenerator(out.val)
              THEN q' = Append(Popped, out.val) /\ cur' = None
              ELSE q' = Popped /\ cur' = out.val
    /\ UNCHANGED <<xpc, start, maxdepth>>
    /\ SelectorIdle

\* Lines 48-50: the top symbol yields another incomplete symbol.
Nested ==
    /\ xpc = "loop" /\ q # <<>>
    /\ EvolveIdle
    /\ ~DepthReached(q, maxdepth)
    /\ LET out == Send(Top, cur)
       IN  /\ out.kind = "yield"
           /\ IsGenerator(out.val)
           /\ q' = Push(Append(Popped, out.frame), out.val)
           /\ cur' = None
    /\ UNCHANGED <<xpc, start, maxdepth>>
    /\ SelectorIdle

\* Lines 51-55: the top symbol yields a sequence of choices.
Choose ==
    /\ xpc = "loop" /\ q # <<>>
    /\ EvolveIdle
    /\ ~DepthReached(q, maxdepth)
    /\ LET out == Send(Top, cur)
           sel == selector(out.seq, codons, iter, nread, rnd)
       IN  /\ out.kind = "yield"
           /\ ~IsGenerator(out.val)
           /\ q' = Append(Popped, out.frame)
           /\ cur' = sel.answer
           /\ iter' = sel.iter
           /\ nread' = sel.nread
           /\ rnd' = sel.rnd
           /\ last' = [choices |-> out.seq, answer |-> sel.answer, via |-> sel.via]
           /\ asked' = Logged(asked, out.seq)
    /\ calls' = Min(calls + 1, Len(codons) + 1)
    /\ UNCHANGED <<xpc, start, maxdepth, codons>>

\* Line 56: the loop ends, x is returned.
Return ==
    /\ xpc = "loop" /\ q = <<>>
    /\ EvolveIdle
    /\ xpc' = "returned"
    /\ UNCHANGED <<start, maxdepth, q, cur>>
    /\ SelectorIdle

NextExpand ==
    \/ DepthExceeded
    \/ Complete
    \/ Nested
    \/ Choose
    \/ Return

\* selector.__init__: a fresh iterator, a generator seeded with the hash of
\* the codons (random.Random is built anew for every selector), n = 0.
selectorInitShared(cs) == [iter |-> 0, nread |-> 0, rnd |-> rnd]
selectorInit(cs) == [iter |-> 0, nread |-> 0, rnd |-> Seed(cs)]

\* A second, separate expand call on the same grammar and maxdepth, with a
\* fresh selector built from a codon sequence equal to the first one.
Again ==
    /\ xpc \in {"returned", "raised"}
    /\ earlier = NoOutcome
    /\ earlier' = [xpc |-> xpc, cur |-> cur, asked |-> asked]
    /\ xpc' = "loop"
    /\ q' = <<Gen(start)>>
    /\ cur' = None
    /\ LET sel == selectorInit(codons)
       IN  iter' = sel.iter /\ nread' = sel.nread /\ rnd' = sel.rnd
    /\ calls' = 0
    /\ last' = NoCall
    /\ asked' = <<>>
    /\ UNCHANGED <<start, maxdepth, codons>>
    /\ UNCHANGED <<evars, bvars, svars>>

NextExpandTwice ==
    \/ DepthExceeded
    \/ Complete
    \/ Nested
    \/ Choose
    \/ Return
    \/ Again

\* ------------------------------------------------------------------------
\* codons.samples(n), a generator; its consumer takes every sequence.
\* ------------------------------------------------------------------------
InitSamples ==
    /\ spc = "loop"
    /\ want \in 0..MaxSamples
    /\ left = want
    /\ sampled = <<>>
    \* no evolve run, no expand call
    /\ pc = "idle" /\ population = <<>> /\ cache = <<>> /\ elite = 0 /\ rate = 0
    /\ remember = 0 /\ mapfn = "lazy" /\ fitfn = "distance" /\ gen = 0
    /\ size0 = 0 /\ entered = <<>>
    /\ yielded = <<>> /\ kept = <<>> /\ recency = <<>> /\ evicted = {} /\ ncalls = 0
    /\ xpc = "idle" /\ start = "" /\ maxdepth = 0 /\ q = <<>> /\ cur = NoValue
    /\ codons = <<>> /\ iter = 0 /\ nread = 0 /\ rnd = 0 /\ calls = 0
    /\ last = [choices |-> <<>>, answer |-> NoValue, via |-> "none"]
    /\ asked = <<>> /\ earlier = [xpc |-> "none", cur |-> NoValue, asked |-> <<>>]
    /\ popB = <<>> /\ cacheB = <<>>

\* while n >= 0
SamplesLeft(k) == k >= 0

\* Lines 125-126: yield tuple(random.choices(omega, k=random.randint(1, most)))
\* and count down.
SampleYield ==
    /\ spc = "loop"
    /\ SamplesLeft(left)
    /\ \E t \in Indiv : sampled' = Append(sampled, t)
    /\ left' = left - 1
    /\ UNCHANGED <<spc, want>>
    /\ UNCHANGED <<evars, xvars, bvars>>

\* Line 124: the loop condition fails, the generator is exhausted.
SampleStop ==
    /\ spc = "loop"
    /\ ~SamplesLeft(left)
    /\ spc' = "done"
    /\ UNCHANGED <<want, left, sampled>>
    /\ UNCHANGED <<evars, xvars, bvars>>

NextSamples ==
    \/ SampleYield
    \/ SampleStop

\* ------------------------------------------------------------------------
\* Specifications: an evolve run, an expand run.
\* ------------------------------------------------------------------------
Spec == InitEvolve /\ [][NextEvolve]_vars

SpecExpand == InitExpand /\ [][NextExpand]_vars

\* expand is one synchronous loop: it keeps taking steps while it can.
FairSpecExpand == SpecExpand /\ WF_vars(NextExpand)

\* An evolve run on a wider population with a single non-elite slot.
SpecWide == InitWide /\ [][NextEvolve]_vars

\* Two expand calls in a row on equal codons.
SpecExpandTwice == InitExpand /\ [][NextExpandTwice]_vars

\* One call of codons.samples, consumed to the end.
SpecSamples == InitSamples /\ [][NextSamples]_vars

\* Two evolve runs that differ only in the state of the module-level generator.
SpecTwoRuns == InitTwoRuns /\ [][NextTwoRuns]_vars

\* ------------------------------------------------------------------------
\* Properties of evolve
\* ------------------------------------------------------------------------
Range(s) == {s[i] : i \in 1..Len(s)}

\* max(remember, initial population size)
Capacity == Max(remember, size0)

Running == pc \notin {"start", "error"}

\* C1 (as claimed): after every bulk fitness update, and so in every yielded
\* pair, the cache holds at most max(remember, initial population size) entries.
C1_BoundedAfterUpdate ==
    pc \in {"sort", "yield", "sort2"} => Len(cache) <= Capacity

\* C1 (amended): the cache holds at most max(remember, initial population size)
\* entries when a trim has just run and up to the first yield; after a bulk
\* update and at later yields it holds at most that plus the number of
\* non-elite slots.
C1_BoundedAfterTrim ==
    /\ pc \in {"breed", "mutate"} => Len(cache) <= Capacity
    /\ (gen = 0 /\ pc \in {"sort", "yield"}) => Len(cache) <= Capacity
    /\ Running => Len(cache) <= Capacity + (size0 - elite)

C1_Witness ==
    /\ pc = "mutate"
    /\ evicted # {}
    /\ Len(cache) = Capacity

\* C2: after each fitness-evaluation step the cache maps every individual of
\* the population to its fitness, for lazy and for eager order-preserving maps.
C2_CacheHoldsFitness ==
    pc \in {"sort", "sort2"} =>
        \A i \in 1..Len(population) :
            /\ InCache(cache, population[i])
            /\ Lookup(cache, population[i]) = Fitness(population[i])

\* C5 (as claimed): every yielded elite is still a member of the population
\* that enters the next generation's fitness evaluation.
C5_YieldedEliteSurvives ==
    (pc = "eval" /\ gen >= 1) => Range(yielded) \subseteq Range(population)

\* C5 (amended): the yielded elites stay in place through selection and
\* crossover; after the re-sort that follows crossover, the first `elite`
\* entries of the re-sorted population are the ones mutation carries, in
\* place, into the next generation's fitness evaluation.
C5_EliteCarried ==
    /\ pc \in {"trim1", "breed", "eval2", "sort2"} =>
           Elites(population, elite) = yielded
    /\ (pc = "eval" /\ gen >= 1) => Elites(population, elite) = kept

C5_Witness ==
    /\ pc = "eval"
    /\ gen >= 1
    /\ elite >= 1
    /\ ~(Range(yielded) \subseteq Range(population))

\* C6: every yielded population has the length of the initial population.
C6_LengthKept == pc = "yield" => Len(population) = size0

C6_Witness ==
    /\ pc = "yield"
    /\ gen >= 1
    /\ elite >= 1
    /\ Len(population) = MaxPop

\* C7: elite >= len(population) fails before any pair is produced and before
\* fitness, selection, crossover or mutation run; elite < len(population)
\* never fails.
C7_InvalidConfig ==
    /\ pc = "error" =>
           /\ elite >= size0
           /\ gen = 0 /\ ncalls = 0
           /\ cache = <<>> /\ recency = <<>>
    /\ elite >= size0 => pc \in {"start", "error"}
    /\ elite < size0 => pc # "error"

C7_Witness == pc = "error" /\ elite = size0

\* C8: every yielded population is ascending by cached fitness, a permutation
\* of the population that entered the sort, and stable on ties.
Count(s, x) == Cardinality({i \in 1..Len(s) : s[i] = x})

WithFitness(s, c, v) == SelectSeq(s, LAMBDA y : Lookup(c, y) = v)

C8_YieldSorted ==
    pc = "yield" =>
        /\ \A i, j \in 1..Len(population) :
               i < j => Lookup(cache, population[i]) <= Lookup(cache, population[j])
        /\ Len(population) = Len(entered)
        /\ \A x \in Range(entered) \cup Range(population) :
               Count(population, x) = Count(entered, x)
        /\ \A x \in Range(entered) :
               WithFitness(population, cache, Lookup(cache, x)) =
               WithFitness(entered, cache, Lookup(cache, x))

C8_Witness ==
    /\ pc = "yield"
    /\ gen >= 1
    /\ population # entered
    /\ \E i, j \in 1..Len(population) :
           /\ i < j
           /\ population[i] # population[j]
           /\ Lookup(cache, population[i]) = Lookup(cache, population[j])

\* C10: a trim evicts only entries touched less recently than every entry it
\* leaves (touched: inserted, or read through access).
EvictsLeastRecent ==
    \A e \in Keys(cache) \ Keys(cache'), r \in Keys(cache') :
        Pos(recency, e) < Pos(recency, r)

C10_EvictsLeastRecent ==
    [][(pc \in {"trim1", "trim2"}) => EvictsLeastRecent]_vars

C10_Witness ==
    /\ pc = "mutate"
    /\ evicted # {}
    /\ elite >= 1

\* C13: when the first pair is yielded, the keys of the cache are exactly the
\* distinct individuals of the initial population, each mapped to its
\* fitness, and fitness has been invoked once per distinct individual.
C13_FirstYield ==
    (pc = "yield" /\ gen = 0) =>
        /\ Keys(cache) = Range(population)
        /\ \A k \in Keys(cache) : Lookup(cache, k) = Fitness(k)
        /\ ncalls = Cardinality(Range(population))

\* The non-elite slots.
Slots == (elite + 1)..Len(population)

\* C15 (as claimed): crossover leaves the first `elite` slots alone, and every
\* other slot i ends as its own occupant or as that occupant crossed with some
\* partner; with rate = 0 the population is returned unchanged.
C15_BreedInPlace ==
    pc = "eval2" =>
        /\ Elites(population, elite) = Elites(entered, elite)
        /\ \A i \in Slots :
               \/ population[i] = entered[i]
               \/ \E partner \in Indiv : population[i] \in twopoint(entered[i], partner)
        /\ rate = 0 => population = entered

\* C15 (amended): crossover leaves the first `elite` slots alone, and every
\* other slot ends as some member of the post-selection population, drawn
\* with replacement from all of it, or as such a member crossed with a
\* partner drawn from it; with rate = 0 every slot ends as such a member.
C15_BreedResamples ==
    pc = "eval2" =>
        /\ Len(population) = Len(entered)
        /\ Elites(population, elite) = Elites(entered, elite)
        /\ \A i \in Slots :
               \E m \in 1..Len(entered) :
                   \/ rate < 2 /\ population[i] = entered[m]
                   \/ /\ rate > 0
                      /\ \E p \in 1..Len(entered) :
                             population[i] \in twopoint(entered[m], entered[p])
        /\ rate = 0 => \A i \in Slots : population[i] \in Range(entered)

C15_Witness ==
    /\ pc = "eval2"
    /\ elite >= 1
    /\ rate = 0
    /\ \E i \in Slots :
           /\ population[i] # entered[i]
           /\ population[i] = entered[1]
           /\ \A partner \in Indiv : population[i] \notin twopoint(entered[i], partner)

C18_BestNeverWorse ==
    (pc = "yield" /\ gen >= 1 /\ elite >= 1) =>
        Fitness(population[1]) <= Fitness(yielded[1])

\* C19: whenever the sort or the selection is about to read fitness through
\* the accessor, every individual it can ask for has a cache entry; and
\* neither trim evicts a member of the current population.
C19_AccessNeverMisses ==
    /\ pc \in {"sort", "sort2", "select"} => Range(population) \subseteq Keys(cache)
    /\ pc \in {"breed", "mutate"} =>
           /\ evicted \cap Range(population) = {}
           /\ Range(population) \subseteq Keys(cache)

C19_Witness ==
    /\ pc = "breed"
    /\ gen >= 2
    /\ evicted # {}
    /\ remember = size0
    /\ Len(cache) = remember

\* C11: two runs with the same population, fitness, elite, rate, remember and
\* an identically seeded `random` argument, the crossover left at its default,
\* yield the same populations whatever the module-level generator's state.
C11_SameRuns == pc = "yield" => popB = population

\* ------------------------------------------------------------------------
\* Properties of expand and selector
\* ------------------------------------------------------------------------
\* The largest number of symbols a terminating start symbol has on q at once.
StructDepth(name) == IF name = "pair" THEN 2 ELSE 1

\* C3: a terminating grammar never raises the depth error when maxdepth is at
\* least its structural nesting depth; a start symbol that completes at once
\* with a plain value returns it for every maxdepth >= 1.
C3_NoDepthError ==
    (start \in Terminating /\ (maxdepth = Inf \/ maxdepth >= StructDepth(start)))
        => xpc # "raised"

\* C4 (as claimed): for every finite maxdepth, a nonterminal that always
\* recurses into itself ends in the depth error, whichever way it recurses.
C4_RecursionRaises ==
    (start \in {"loopy", "tail"}) => <>(xpc = "raised")

\* The part of C4 the code does satisfy: a nonterminal that recurses by
\* yielding the nested computation as a request ends in the depth error.
C4_YieldRecursionRaises ==
    (start = "loopy") => <>(xpc = "raised")

C4_Witness ==
    /\ start = "loopy"
    /\ xpc = "raised"
    /\ maxdepth = MaxDepth
    /\ Len(q) = maxdepth

\* C9: the k-th selector call, k <= len(codons), answers
\* choices[codon_k mod len(choices)] and leaves the fallback generator alone;
\* later calls use only the fallback generator and read no codon.
C9_SelectorByCodons ==
    /\ (calls >= 1 /\ calls <= Len(codons)) =>
           /\ last.answer = last.choices[(codons[calls] % Len(last.choices)) + 1]
           /\ last.via = "codon"
    /\ calls <= Len(codons) => (iter = calls /\ nread = calls /\ rnd = Seed(codons))
    /\ calls > Len(codons) =>
           /\ last.via = "random"
           /\ last.answer \in Range(last.choices)
           /\ iter = Len(codons) /\ nread = Len(codons)

C9_Witness ==
    /\ calls > Len(codons)
    /\ Len(codons) = MaxLen
    /\ nread = MaxLen
    /\ Len(last.choices) > 1

\* The loop is at its top with the stack at or over a finite maxdepth.
AtDepth == xpc = "loop" /\ q # <<>> /\ maxdepth # Inf /\ Len(q) >= maxdepth

\* The step raises: no computation is resumed, the selector is not called.
RaisesOnly ==
    /\ xpc' = "raised"
    /\ q' = q /\ cur' = cur
    /\ iter' = iter /\ nread' = nread /\ rnd' = rnd /\ asked' = asked

RECURSIVE Direct(_, _, _, _)
Direct(f, v, st, fuel) ==
    IF fuel = 0 THEN [ok |-> FALSE, val |-> None, st |-> st]
    ELSE LET out == Send(f, v)
         IN  IF out.kind = "stop"
             THEN IF IsGenerator(out.val)
                  THEN Direct(out.val, None, st, fuel - 1)
                  ELSE [ok |-> TRUE, val |-> out.val, st |-> st]
             ELSE IF IsGenerator(out.val)
                  THEN LET sub == Direct(out.val, None, st, fuel - 1)
                       IN  IF sub.ok
                           THEN Direct(out.frame, sub.val, sub.st, fuel - 1)
                           ELSE sub
                  ELSE LET sel == selector(out.seq, codons, st.iter, st.nread, st.rnd)
                       IN  Direct(out.frame, sel.answer,
                                  [iter |-> sel.iter, nread |-> sel.nread,
                                   rnd |-> sel.rnd,
                                   asked |-> Logged(st.asked, out.seq)],
                                  fuel - 1)

\* The direct evaluation of the start symbol with a fresh selector.
Reference ==
    LET sel == selectorInit(codons)
    IN  Direct(Gen(start), None,
               [iter |-> sel.iter, nread |-> sel.nread, rnd |-> sel.rnd,
                asked |-> <<>>],
               MaxFuel)

\* C20: when the stack-driven expand returns, it returns the value of the
\* direct recursive evaluation of the start symbol, has called the selector
\* with the same choice lists in the same order and leaves the selector in
\* the same state; a terminating grammar without a depth bound returns.
C20_ExpandIsDirect ==
    /\ xpc = "returned" =>
           /\ Reference.ok
           /\ cur = Reference.val
           /\ asked = Reference.st.asked
           /\ <<iter, nread, rnd>> =
                 <<Reference.st.iter, Reference.st.nread, Reference.st.rnd>>
    /\ (start \in Terminating /\ maxdepth = Inf) => xpc # "raised"

C20_Witness ==
    /\ xpc = "returned"
    /\ start = "exp"
    /\ Len(asked) >= 8
    /\ Len(asked) < MaxAsked
    /\ iter = Len(codons)
    /\ Len(cur.toks) >= 9

C14_ExactlyN == spc = "done" => Len(sampled) = want

====
